---------------------------- MODULE Spec2Model ----------------------------
(***************************************************************************)
(* Model of PlutoTVDownloader (src/helper.ts): the media-manifest parser   *)
(* parsePlaylist / parseKey, the decrypt pipeline ProcessPlaylist /        *)
(* decryptFileToFile, and the stream selection getHighestBandwidthStream.  *)
(*                                                                         *)
(* A manifest is a sequence of lines.  A line is a record                  *)
(*   [tag |-> what the line starts with, val |-> its payload,             *)
(*    ws  |-> whether it carries surrounding whitespace]                   *)
(* so that startsWith(), trim() and includes() are computed on the line    *)
(* as the code computes them on the text.                                  *)
(***************************************************************************)
EXTENDS Integers, Sequences, FiniteSets, TLC

VARIABLES
    playlist,   \* the manifest text handed to parsePlaylist / ProcessPlaylist
    parsed,     \* result of parsePlaylist(playlist)
    ppc,        \* position of the parsePlaylist caller: "start" | "done"
    files,      \* the output tree: the files on disk, [path, data]
    dirs,       \* the output tree: the directories on disk
    run,        \* number of ProcessPlaylist invocations started so far
    status,     \* of the current invocation: "idle" | "running" | "returned" | "threw"
    cur,        \* position in parsed.segments of the segment being handled
    pc,         \* the await the invocation is at, within the loop body
    VCSegment,  \* body of the segment response (local of the loop body)
    io,         \* the calls of the current invocation, in order (history)
    files0,     \* the files on disk when the current invocation started (history)
    outcomes,   \* status of the invocations that ended before the current one (history)
    streams,    \* the stream variants handed to getHighestBandwidthStream
    selected,   \* what getHighestBandwidthStream returned
    spc,        \* position of its caller: "start" | "done"
    master,     \* the master manifest text handed to parseMaster
    mparsed,    \* result of parseMaster(master)
    mpc,        \* position of the parseMaster caller: "start" | "done"
    m3u8,       \* the files of the directory ./m3u8, [name, text]
    Files,      \* the driver script's Files: what getFiles returned
    fidx,       \* position of the driver's for loop in Files
    dpc,        \* position of the driver script
    now,        \* the wall clock, in seconds
    refreshTime,  \* module variable refreshTime of helper.ts
    playlistUrl,  \* module variable playlistUrl of helper.ts
    alive,      \* the downloader process has not exited
    epc,        \* position of the entry script
    channelID,  \* the channelID argument startDownloader was called with
    timer,      \* the instant the setInterval timer fires next
    inv,        \* the downloadPlaylist invocations, in order of their start
    saved,      \* the manifest files written by downloadPlaylist
    gdu         \* the getDownloadURL calls made so far (history)

parseVars == <<playlist, parsed, ppc>>
procVars == <<files, dirs, run, status, cur, pc, VCSegment, io, files0, outcomes>>
selVars == <<streams, selected, spc>>
masterVars == <<master, mparsed, mpc>>
drvVars == <<m3u8, Files, fidx, dpc>>
dlVars == <<now, refreshTime, playlistUrl, alive, epc, channelID, timer, inv,
           saved, gdu>>
extVars == <<masterVars, drvVars, dlVars>>
vars == <<playlist, parsed, ppc, files, dirs, run, status, cur, pc, VCSegment,
          io, files0, outcomes, streams, selected, spc, master, mparsed, mpc,
          m3u8, Files, fidx, dpc, now, refreshTime, playlistUrl, alive, epc,
          channelID, timer, inv, saved, gdu>>

-----------------------------------------------------------------------------
(* Bounds *)

\* A manifest is made of at most MaxBlocks blocks (a block is one line, or a
\* #EXTINF line together with its URL line).
MaxBlocks == 4

\* A manifest handed to ProcessPlaylist is made of at most MaxProcBlocks blocks.
MaxProcBlocks == 4

\* ProcessPlaylist is invoked at most MaxRuns times on the manifest.
MaxRuns == 2

\* A master manifest lists at most MaxStreams stream variants.
MaxStreams == 4

\* A master manifest is made of at most MaxMasterBlocks blocks (a block is one
\* line, or a #EXT-X-STREAM-INF line together with its URI line).
MaxMasterBlocks == 3

\* The directory ./m3u8 holds at most MaxFiles saved manifests.
MaxFiles == 3

\* The downloader is observed for MaxTime seconds.
MaxTime == 10

\* downloadPlaylist is invoked at most MaxInvocations times.
MaxInvocations == 3

-----------------------------------------------------------------------------
(* Manifest text *)

\* Key URIs that occur in the manifests.  "u1" and "u2" are ordinary key URIs,
\* "ux" contains the identifier 099_Pluto_TV_OandO, "us" is a URI with fewer
\* than six "/"-separated parts, "" stands for a KEY line without URI
\* attribute.
KeyUris == {"u1", "u2", "ux", "us", ""}

\* Segment URLs: "a", "b" ordinary, "x" contains 829_Pluto_TV_OandO.
SegUrls == {"a", "b", "x"}

Line(t, v, w) == [tag |-> t, val |-> v, ws |-> w]

KeyLine(u) == Line("#EXT-X-KEY", u, FALSE)
ExtInfLine == Line("#EXTINF:", "10.0", FALSE)
UrlLine(u) == Line("", u, u = "b")       \* the "b" line has trailing blanks
DiscLine   == Line("#EXT-X-DISCONTINUITY", "", FALSE)

Blocks ==
    {<<KeyLine(u)>> : u \in KeyUris}
      \cup {<<ExtInfLine>>, <<DiscLine>>}
      \cup {<<UrlLine(u)>> : u \in SegUrls}
      \cup {<<ExtInfLine, UrlLine(u)>> : u \in SegUrls}

RECURSIVE Flatten(_)
Flatten(bs) == IF bs = <<>> THEN <<>> ELSE Head(bs) \o Flatten(Tail(bs))

BlockSeqs(n) == UNION {[1..k -> Blocks] : k \in 0..n}

\* The manifests handed to ProcessPlaylist: keys, entries, and a dangling
\* #EXTINF line.
ProcBlocks ==
    {<<KeyLine("u1")>>, <<KeyLine("u2")>>, <<KeyLine("")>>, <<ExtInfLine>>,
     <<ExtInfLine, UrlLine("a")>>, <<ExtInfLine, UrlLine("b")>>}

ProcBlockSeqs(n) == UNION {[1..k -> ProcBlocks] : k \in 0..n}

-----------------------------------------------------------------------------
(* String helpers of the parser *)

\* String.prototype.trim
trim(line) == [line EXCEPT !.ws = FALSE]

\* text.includes("099_Pluto_TV_OandO") and text.includes("829_Pluto_TV_OandO")
Includes099(text) == text = "ux"
Includes829(text) == text = "x"

\* The text holds one of the two excluded sentinel identifiers.
HasSentinel(text) == Includes099(text) \/ Includes829(text)

\* The test of line 221, negated: the key is left out of `keys`.
KeyIsExcluded(key) == Includes099(key.uri) \/ Includes829(key.uri)

UrlIsExcludedOnly099(url) == Includes099(url.val)

\* The test of line 226, negated: the segment is left out of `segments`.
UrlIsExcluded(url) == Includes099(url.val) \/ Includes829(url.val)

CurrentKeyFirst(keys) == IF Len(keys) > 0 THEN 1 ELSE 0

\* keys[keys.length - 1]: a reference to the last KeyRecord pushed, as its
\* position in `keys`; 0 is undefined (no KeyRecord pushed yet).
CurrentKey(keys) == Len(keys)

RECURSIVE IndexOfLine(_, _, _)
IndexOfLine(lines, line, from) ==
    IF from > Len(lines) THEN 0
    ELSE IF lines[from] = line THEN from
    ELSE IndexOfLine(lines, line, from + 1)

UrlLineIndexByIndexOf(lines, index) == IndexOfLine(lines, lines[index], 1) + 1

\* index + 1 of lines[index + 1]: where the url of the #EXTINF line at `index`
\* is read.
UrlLineIndex(lines, index) == index + 1

\* uriParts[5].slice(25): the key's name, derived from the 6th path part
KeyNameOf(uri) ==
    CASE uri = "u1" -> "n1"
      [] uri = "u2" -> "n2"
      [] uri = "ux" -> "nx"
      [] OTHER      -> ""

\* AES-128: keys, IVs and blocks are 16 bytes ("aes-128-cbc").
AesBlockBytes == 16

\* value.trim().slice(2) of the IV attribute: the hex digits after "0x", as
\* digit values
KeyIvOf(uri) ==
    [i \in 1..(2 * AesBlockBytes) |->
        CASE uri = "u1" -> 1
          [] uri = "u2" -> 2
          [] uri = "ux" -> 3
          [] OTHER      -> 0]

\* uriParts[5] is undefined for a URI with fewer than six parts, and
\* undefined.slice(25) throws TypeError.
parseKeyThrows(line) == line.val = "us"

\* parseKey(line): the KeyRecord of a #EXT-X-KEY line.  `line` (the position of
\* the KEY line) identifies the object: segments hold a reference to it.
parseKey(line, at) ==
    [name |-> IF line.val = "" THEN "" ELSE KeyNameOf(line.val),
     uri  |-> line.val,
     iv   |-> KeyIvOf(line.val),
     at   |-> at]

\* url.split("-").pop()?.replace(".ts", "") || ""
SegIndexOf(url) ==
    CASE url.val = "a" -> "1"
      [] url.val = "b" -> "2"
      [] OTHER         -> ""

NoParse == [segments |-> <<>>, keys |-> <<>>, threw |-> FALSE]

\* The body of the for loop of parsePlaylist at line `index` (1-based), with
\* the segments and keys collected so far.  A segment's key is a reference:
\* the position of the KeyRecord in `keys`, 0 for undefined.
RECURSIVE ScanLines(_, _, _, _)
ScanLines(lines, index, segments, keys) ==
    IF index > Len(lines)
    THEN [segments |-> segments, keys |-> keys, threw |-> FALSE]
    ELSE LET line == lines[index] IN
         IF line.tag = "#EXT-X-KEY"
         THEN IF parseKeyThrows(line)
              THEN [segments |-> <<>>, keys |-> <<>>, threw |-> TRUE]
              ELSE
              LET key == parseKey(line, index) IN
              IF ~KeyIsExcluded(key)
              THEN ScanLines(lines, index + 1, segments, Append(keys, key))
              ELSE ScanLines(lines, index + 1, segments, keys)
         ELSE IF line.tag = "#EXTINF:"
         THEN IF UrlLineIndex(lines, index) > Len(lines)
              THEN \* lines[index + 1] is undefined: .trim() throws TypeError
                   [segments |-> <<>>, keys |-> <<>>, threw |-> TRUE]
              ELSE LET url == trim(lines[UrlLineIndex(lines, index)]) IN
                   IF ~UrlIsExcluded(url)
                   THEN ScanLines(lines, index + 1,
                                  Append(segments,
                                         [url   |-> url,
                                          index |-> SegIndexOf(url),
                                          key   |-> CurrentKey(keys),
                                          at    |-> index]),
                                  keys)
                   ELSE ScanLines(lines, index + 1, segments, keys)
         ELSE ScanLines(lines, index + 1, segments, keys)

parsePlaylist(lines) == ScanLines(lines, 1, <<>>, <<>>)

-----------------------------------------------------------------------------
(* Stream selection *)

\* Bandwidths of the variants of a master manifest, bits per second.
Bandwidths == {300000, 500000, 1200000}

\* A stream variant; its uri is the line that follows its #EXT-X-STREAM-INF
\* line, which identifies the variant: the k-th variant has uri k.
StreamLists ==
    UNION {{[k \in 1..n |-> [bandwidth |-> bw[k], uri |-> k]] :
              bw \in [1..n -> Bandwidths]} : n \in 0..MaxStreams}

\* The value undefined, as a stream.
Undefined == [bandwidth |-> -1, uri |-> 0]

\* Math.max(...numbers); for no arguments it is -Infinity, below every
\* bandwidth, written -1 here
MathMax(numbers) ==
    IF Len(numbers) = 0 THEN -1
    ELSE LET S == {numbers[k] : k \in 1..Len(numbers)}
         IN  CHOOSE m \in S : \A n \in S : n <= m

getHighestBandwidthStreamLast(list) ==
    LET maxBandwidth == MathMax([k \in 1..Len(list) |-> list[k].bandwidth])
        filtered == SelectSeq(list, LAMBDA stream : stream.bandwidth = maxBandwidth)
    IN  IF Len(filtered) = 0 THEN Undefined ELSE filtered[Len(filtered)]

\* getHighestBandwidthStream(streams): filter(...)[0] is undefined when
\* nothing passes the filter
getHighestBandwidthStream(list) ==
    LET maxBandwidth == MathMax([k \in 1..Len(list) |-> list[k].bandwidth])
        filtered == SelectSeq(list, LAMBDA stream : stream.bandwidth = maxBandwidth)
    IN  IF Len(filtered) = 0 THEN Undefined ELSE filtered[1]

SelIdle ==
    /\ streams = <<>>
    /\ selected = Undefined
    /\ spc = "start"

-----------------------------------------------------------------------------
(* parseMaster and parseAttributes *)

\* Lines of a master manifest.  Two #EXT-X-STREAM-INF lines with the same
\* attribute text are the same line; the indented one differs from them.
ExtM3uLine == Line("#EXTM3U", "", FALSE)
MediaLine == Line("#EXT-X-MEDIA", "TYPE=SUBTITLES,GROUP-ID=\"subs\"", FALSE)
StreamInfLine(attrs, w) == Line("#EXT-X-STREAM-INF", attrs, w)
UriLine(u) == Line("", u, u = "high.m3u8")

StreamAttrs ==
    {"PROGRAM-ID=1,BANDWIDTH=500000", "PROGRAM-ID=1,BANDWIDTH=1200000"}

\* CODECS="avc1,mp4a": the quoted value holds a comma
CodecsAttrs == "BANDWIDTH=300000,CODECS=\"avc1,mp4a\""

MasterUris == {"low.m3u8", "high.m3u8"}

MasterBlocks ==
    {<<ExtM3uLine>>, <<MediaLine>>,
     <<StreamInfLine("PROGRAM-ID=1,BANDWIDTH=500000", TRUE)>>,
     <<StreamInfLine(CodecsAttrs, FALSE)>>}
      \cup {<<StreamInfLine(a, FALSE)>> : a \in StreamAttrs}
      \cup {<<UriLine(u)>> : u \in MasterUris}
      \cup {<<StreamInfLine(a, FALSE), UriLine(u)>> :
                a \in StreamAttrs, u \in MasterUris}

MasterBlockSeqs(n) == UNION {[1..k -> MasterBlocks] : k \in 0..n}

\* parseAttributes throws TypeError on a part without "=": value is
\* undefined and value.trim() fails.  Splitting CODECS="avc1,mp4a" on ","
\* leaves such a part.
parseAttributesThrows(line) == line.val = CodecsAttrs

\* parseAttributes(line): the attribute bag, keys lower-cased, quotes
\* removed from the values.  The line is split on "," with its tag, so the
\* key of the first attribute carries the tag.
parseAttributes(line) ==
    CASE line.val = "PROGRAM-ID=1,BANDWIDTH=500000" ->
           {<<"#ext-x-stream-inf:program-id", "1">>, <<"bandwidth", "500000">>}
      [] line.val = "PROGRAM-ID=1,BANDWIDTH=1200000" ->
           {<<"#ext-x-stream-inf:program-id", "1">>, <<"bandwidth", "1200000">>}
      [] line.tag = "#EXT-X-MEDIA" ->
           {<<"#ext-x-media:type", "SUBTITLES">>, <<"group-id", "subs">>}
      [] OTHER -> {}

\* lines.indexOf(line) + 1: where the uri of the #EXT-X-STREAM-INF line at
\* `index` is read; indexOf finds the first line with that text.
UriLineIndex(lines, index) == IndexOfLine(lines, lines[index], 1) + 1

NoMaster == [streams |-> <<>>, media |-> <<>>, threw |-> FALSE]

MasterThrew == [streams |-> <<>>, media |-> <<>>, threw |-> TRUE]

\* The body of the for loop of parseMaster at line `index` (1-based).
RECURSIVE ScanMaster(_, _, _, _)
ScanMaster(lines, index, strms, media) ==
    IF index > Len(lines)
    THEN [streams |-> strms, media |-> media, threw |-> FALSE]
    ELSE LET trimmedLine == trim(lines[index]) IN
         IF trimmedLine.tag = "#EXTM3U"
         THEN ScanMaster(lines, index + 1, strms, media)
         ELSE IF trimmedLine.tag = "#EXT-X-MEDIA"
         THEN IF parseAttributesThrows(trimmedLine)
              THEN MasterThrew
              ELSE ScanMaster(lines, index + 1, strms,
                              Append(media, parseAttributes(trimmedLine)))
         ELSE IF trimmedLine.tag = "#EXT-X-STREAM-INF"
         THEN IF parseAttributesThrows(trimmedLine)
              THEN MasterThrew
              ELSE IF UriLineIndex(lines, index) > Len(lines)
              THEN \* lines[...] is undefined: .trim() throws TypeError
                   MasterThrew
              ELSE ScanMaster(lines, index + 1,
                              Append(strms,
                                     [attrs |-> parseAttributes(trimmedLine),
                                      uri   |-> trim(lines[UriLineIndex(lines, index)]),
                                      at    |-> index]),
                              media)
         ELSE ScanMaster(lines, index + 1, strms, media)

parseMaster(lines) == ScanMaster(lines, 1, <<>>, <<>>)

MasterIdle ==
    /\ master = <<>>
    /\ mparsed = NoMaster
    /\ mpc = "start"

\* let refreshTime: Date (not yet assigned)
NoDate == 0 - 1

\* A string that is a channel id or a URL.  For a URL, inner tells what
\* stands in the place of the channel id and session is the deadline of the
\* session whose token it carries.
Str(kind, inner, session) ==
    [kind |-> kind, inner |-> inner, session |-> session]

\* let playlistUrl: string (not yet assigned)
NoUrl == Str("undefined", "", NoDate)

DrvIdle ==
    /\ m3u8 = {}
    /\ Files = <<>>
    /\ fidx = 0
    /\ dpc = "-"

DlIdle ==
    /\ now = 0
    /\ refreshTime = NoDate
    /\ playlistUrl = NoUrl
    /\ alive = FALSE
    /\ epc = [pc |-> "-", session |-> NoDate]
    /\ channelID = NoUrl
    /\ timer = NoDate
    /\ inv = <<>>
    /\ saved = {}
    /\ gdu = <<>>

ExtIdle == MasterIdle /\ DrvIdle /\ DlIdle

-----------------------------------------------------------------------------
(* ProcessPlaylist: bytes, paths and the origin *)

ShowName == "FreitagNachtNews"

\* buf2hex: two hex digits per byte, high digit first
buf2hex(buffer) ==
    [i \in 1..(2 * Len(buffer)) |->
        IF i % 2 = 1 THEN buffer[(i + 1) \div 2] \div 16
                     ELSE buffer[i \div 2] % 16]

\* Buffer.from(hex, "hex"): one byte per pair of hex digits
BufferFromHex(hex) ==
    [i \in 1..(Len(hex) \div 2) |-> 16 * hex[2 * i - 1] + hex[2 * i]]

\* The origin's response body for a key URI: 16 raw key bytes.
KeyResponse(uri) ==
    [i \in 1..AesBlockBytes |-> IF uri = "u1" THEN 161 ELSE 178]

\* The origin's response body for a segment URL: the ciphertext.
SegmentResponse(url) == <<"ciphertext", url.val>>

\* What aes-128-cbc decryption of `data` under (key, iv) yields when the
\* padding is valid.
Decipher(data, key, iv) == [plain |-> data[2], key |-> key, iv |-> iv]

\* What a writeFile that fails midway may leave on disk.
Truncated(data, key, iv) == [plain |-> "truncated", key |-> key, iv |-> iv]

\* path.join: the non-empty parts, "./" normalised away
join(parts) == SelectSeq(parts, LAMBDA x : x # "" /\ x # "./")

\* getURLBaseDir(url): the directories between "720p/" and the file name
getURLBaseDir(url) ==
    CASE url.val = "a" -> "clip1"
      [] url.val = "b" -> "clip1"
      [] OTHER         -> ""

\* urlParts[urlParts.length - 1]
lastPathSegment(url) ==
    CASE url.val = "a" -> "a.ts"
      [] url.val = "b" -> "b.ts"
      [] OTHER         -> url.val

\* The segment's key, or "undefined".
KeyOf(segment) ==
    IF segment.key = 0 THEN "undefined" ELSE parsed.keys[segment.key]

\* const Directory = join("./", ShowName, segment.key.name, getURLBaseDir(url))
Directory(segment) ==
    join(<<"./", ShowName, KeyOf(segment).name, getURLBaseDir(segment.url)>>)

\* join(Directory, lastPathSegment)
TargetPath(segment) ==
    Directory(segment) \o join(<<lastPathSegment(segment.url)>>)

\* Bun.file(path).exists()
Exists(path) == \E f \in files : f.path = path

\* mkdir(dir, { recursive: true }): the directory and its missing ancestors
MkdirRecursive(dir) == dirs \cup {SubSeq(dir, 1, k) : k \in 1..Len(dir)}

\* fs.promises.writeFile(path, data): creates or replaces the file
WriteFile(path, data) ==
    {f \in files : f.path # path} \cup {[path |-> path, data |-> data]}

Segment == parsed.segments[cur]

\* An entry of the history of calls.
Call(op, target, ok) ==
    [op |-> op, seg |-> cur, target |-> target, ok |-> ok,
     existed |-> Exists(TargetPath(Segment))]

\* The invocation goes on with the next iteration of the for loop, or
\* returns when the segments are exhausted.
NextIteration ==
    IF cur + 1 > Len(parsed.segments)
    THEN status' = "returned" /\ cur' = cur /\ pc' = "-"
    ELSE status' = "running" /\ cur' = cur + 1 /\ pc' = "mkdir"

\* An exception leaves ProcessPlaylist: nothing in it catches.
Throw == status' = "threw" /\ cur' = cur /\ pc' = "-"

-----------------------------------------------------------------------------
(* ProcessPlaylist: one action per await *)

\* ProcessPlaylist(playlist, ShowName) is called: parsePlaylist(playlist)
\* yields the segments the loop iterates.
Invoke(text) ==
    /\ run' = run + 1
    /\ outcomes' = IF status = "idle" THEN outcomes ELSE Append(outcomes, status)
    /\ parsed' = parsePlaylist(text)
    /\ io' = <<>>
    /\ files0' = files
    /\ VCSegment' = <<>>
    /\ IF parsed'.threw
       THEN status' = "threw" /\ cur' = 0 /\ pc' = "-"
       ELSE IF Len(parsed'.segments) = 0
       THEN status' = "returned" /\ cur' = 0 /\ pc' = "-"
       ELSE status' = "running" /\ cur' = 1 /\ pc' = "mkdir"
    /\ UNCHANGED <<ppc, files, dirs>>

\* The manifest is handed over, up to MaxRuns times.
ProcessPlaylist ==
    /\ status \in {"idle", "returned", "threw"}
    /\ run < MaxRuns
    /\ Invoke(playlist)
    /\ UNCHANGED playlist
    /\ UNCHANGED selVars
    /\ UNCHANGED extVars

MkdirSkipsKeyless ==
    /\ status = "running" /\ pc = "mkdir"
    /\ IF Segment.key = 0
       THEN /\ io' = Append(io, [op |-> "Directory", seg |-> cur,
                                  target |-> <<>>, ok |-> TRUE,
                                  existed |-> FALSE])
            /\ NextIteration
            /\ UNCHANGED dirs
       ELSE \E ok \in BOOLEAN :
              /\ Directory(Segment) \in dirs => ok
              /\ io' = Append(io, Call("mkdir", Directory(Segment), ok))
              /\ IF ok
                 THEN /\ dirs' = MkdirRecursive(Directory(Segment))
                      /\ pc' = "getSegment"
                      /\ UNCHANGED <<status, cur>>
                 ELSE Throw /\ UNCHANGED dirs
    /\ UNCHANGED <<playlist, parsed, ppc, files, run, VCSegment, files0,
                   outcomes>>
    /\ UNCHANGED selVars
    /\ UNCHANGED extVars

\* Lines 56-62: Directory is computed (segment.key.name throws TypeError
\* when the segment has no key), then await mkdir(Directory).  With
\* { recursive: true } the call is a no-op on a directory that exists; it
\* can fail when it has to create one.
Mkdir ==
    /\ status = "running" /\ pc = "mkdir"
    /\ IF Segment.key = 0
       THEN /\ io' = Append(io, [op |-> "Directory", seg |-> cur,
                                  target |-> <<>>, ok |-> FALSE,
                                  existed |-> FALSE])
            /\ Throw
            /\ UNCHANGED dirs
       ELSE \E ok \in BOOLEAN :
              /\ Directory(Segment) \in dirs => ok
              /\ io' = Append(io, Call("mkdir", Directory(Segment), ok))
              /\ IF ok
                 THEN /\ dirs' = MkdirRecursive(Directory(Segment))
                      /\ pc' = "getSegment"
                      /\ UNCHANGED <<status, cur>>
                 ELSE Throw /\ UNCHANGED dirs
    /\ UNCHANGED <<playlist, parsed, ppc, files, run, VCSegment, files0,
                   outcomes>>
    /\ UNCHANGED selVars
    /\ UNCHANGED extVars

\* Lines 65-67: await axios.get(segment.url)
GetSegment ==
    /\ status = "running" /\ pc = "getSegment"
    /\ \E ok \in BOOLEAN :
          /\ io' = Append(io, Call("getSegment", Segment.url.val, ok))
          /\ IF ok
             THEN /\ VCSegment' = SegmentResponse(Segment.url)
                  /\ pc' = "getKey"
                  /\ UNCHANGED <<status, cur>>
             ELSE Throw /\ UNCHANGED VCSegment
    /\ UNCHANGED <<playlist, parsed, ppc, files, dirs, run, files0, outcomes>>
    /\ UNCHANGED selVars
    /\ UNCHANGED extVars

\* Lines 68-70: await axios.get(segment.key.uri).  An empty uri is no URL:
\* the request cannot succeed.
GetKey ==
    /\ status = "running" /\ pc = "getKey"
    /\ \E ok \in BOOLEAN :
          /\ ok => KeyOf(Segment).uri # ""
          /\ io' = Append(io, Call("getKey", KeyOf(Segment).uri, ok))
          /\ IF ok
             THEN pc' = "exists" /\ UNCHANGED <<status, cur>>
             ELSE Throw
    /\ UNCHANGED <<playlist, parsed, ppc, files, dirs, run, VCSegment, files0,
                   outcomes>>
    /\ UNCHANGED selVars
    /\ UNCHANGED extVars

\* Lines 73-76: await Bun.file(...).exists(); if so, continue
ExistsCheck ==
    /\ status = "running" /\ pc = "exists"
    /\ io' = Append(io, Call("exists", TargetPath(Segment), TRUE))
    /\ IF Exists(TargetPath(Segment))
       THEN NextIteration
       ELSE pc' = "decrypt" /\ UNCHANGED <<status, cur>>
    /\ UNCHANGED <<playlist, parsed, ppc, files, dirs, run, VCSegment, files0,
                   outcomes>>
    /\ UNCHANGED selVars
    /\ UNCHANGED extVars

FilesAfterStreamingDecrypt(outcome, path, key, iv) ==
    CASE outcome = "written" ->
           WriteFile(path, Decipher(VCSegment, key, iv))
      [] outcome \in {"write error, truncated file", "cipher error"} ->
           WriteFile(path, Truncated(VCSegment, key, iv))
      [] OTHER -> files

\* The files on disk after decryptFileToFile: the body is decrypted in
\* memory (decipher.update, decipher.final) and only then written, so a
\* cipher error leaves the disk untouched.
FilesAfterDecrypt(outcome, path, key, iv) ==
    CASE outcome = "written" ->
           WriteFile(path, Decipher(VCSegment, key, iv))
      [] outcome = "write error, truncated file" ->
           WriteFile(path, Truncated(VCSegment, key, iv))
      [] OTHER -> files

decryptCatchSwallows == NextIteration

\* What the catch block of decryptFileToFile does with an error: throw error
decryptCatch == Throw

\* Lines 71-72, 77-82 and decryptFileToFile: the key and iv buffers are
\* built, the body is decrypted and written.  The cipher rejects a key or
\* iv that is not 16 bytes and a body with invalid padding; writeFile can
\* fail, leaving no file or a truncated one.
DecryptFileToFile ==
    /\ status = "running" /\ pc = "decrypt"
    /\ LET key  == BufferFromHex(buf2hex(KeyResponse(KeyOf(Segment).uri)))
           iv   == BufferFromHex(KeyOf(Segment).iv)
           path == TargetPath(Segment)
       IN  \E outcome \in {"written", "cipher error", "write error",
                            "write error, truncated file"} :
             /\ outcome = "written" =>
                    Len(key) = AesBlockBytes /\ Len(iv) = AesBlockBytes
             /\ io' = IF outcome = "cipher error"
                       THEN Append(io, Call("decrypt", path, FALSE))
                       ELSE io \o <<Call("decrypt", path, TRUE),
                                    Call("write", path, outcome = "written")>>
             /\ files' = FilesAfterDecrypt(outcome, path, key, iv)
             /\ IF outcome = "written" THEN NextIteration ELSE decryptCatch
    /\ UNCHANGED <<playlist, parsed, ppc, dirs, run, VCSegment, files0,
                   outcomes>>
    /\ UNCHANGED selVars
    /\ UNCHANGED extVars

\* No invocation yet, an empty output tree.
ProcIdle ==
    /\ files = {}
    /\ dirs = {}
    /\ run = 0
    /\ status = "idle"
    /\ cur = 0
    /\ pc = "-"
    /\ VCSegment = <<>>
    /\ io = <<>>
    /\ files0 = {}
    /\ outcomes = <<>>

InitProcess ==
    /\ \E bs \in ProcBlockSeqs(MaxProcBlocks) : playlist = Flatten(bs)
    /\ parsed = NoParse
    /\ ppc = "start"
    /\ ProcIdle
    /\ SelIdle
    /\ ExtIdle

NextProcess ==
    \/ ProcessPlaylist
    \/ Mkdir
    \/ GetSegment
    \/ GetKey
    \/ ExistsCheck
    \/ DecryptFileToFile

SpecProcess == InitProcess /\ [][NextProcess]_vars

-----------------------------------------------------------------------------
(* The driver script (Parse_Playlist.ts) *)

\* The texts of the saved manifests: a segment under a key, another segment
\* under that key, an entry before any KEY line, and a manifest without
\* segments.
DriverManifests ==
    {Flatten(<<<<KeyLine("u1")>>, <<ExtInfLine, UrlLine("a")>>>>),
     Flatten(<<<<KeyLine("u1")>>, <<ExtInfLine, UrlLine("b")>>>>),
     Flatten(<<<<ExtInfLine, UrlLine("a")>>>>),
     Flatten(<<<<KeyLine("u2")>>>>)}

\* The name <prefix><stamp>.<ext> of a file of ./m3u8.
FileName(prefix, stamp, ext) ==
    [prefix |-> prefix, stamp |-> stamp, ext |-> ext]

\* What ./m3u8 may hold when the driver starts: saved manifests
\* FNN_<stamp>.m3u8 and possibly a file of another extension.
Directories ==
    {{[name |-> FileName("FNN_", k, "m3u8"), text |-> t[k]] : k \in S}
        \cup other :
        S \in SUBSET (1..MaxFiles),
        t \in [1..MaxFiles -> DriverManifests],
        other \in {{}, {[name |-> FileName("FNN_", 0, "txt"),
                         text |-> <<>>]}}}

\* a.localeCompare(b) orders the paths left by the filter by their stamp
RECURSIVE SortByLocaleCompare(_)
SortByLocaleCompare(S) ==
    IF S = {} THEN <<>>
    ELSE LET m == CHOOSE x \in S : \A y \in S : x.stamp <= y.stamp
         IN  <<m>> \o SortByLocaleCompare(S \ {m})

\* fp.includes(NamePrefix), for the prefixes that occur
includes(name, NamePrefix) ==
    \/ NamePrefix = ""
    \/ NamePrefix = "FNN" /\ name.prefix = "FNN_"

\* fp.endsWith(fileExt)
endsWith(name, fileExt) == fileExt = "" \/ name.ext = fileExt

\* getFiles(directoryPath, NamePrefix, fileExt) when readdir succeeds
getFiles(dir, NamePrefix, fileExt) ==
    SortByLocaleCompare({f.name : f \in
        {g \in dir : includes(g.name, NamePrefix)
                        /\ endsWith(g.name, fileExt)}})

\* Bun.file(file).text()
TextOf(file) == (CHOOSE f \in m3u8 : f.name = file).text

AwaitResumesOnRejection == status \in {"returned", "threw"}

\* await ProcessPlaylist(...): the loop body goes on when the promise is
\* fulfilled.
AwaitResumes == status = "returned"

\* Line 5: let Files = await getFiles("./m3u8", "FNN", "m3u8"); getFiles
\* returns [] when readdir fails.
DriverGetFiles ==
    /\ dpc = "start"
    /\ \E ok \in BOOLEAN :
         Files' = IF ok THEN getFiles(m3u8, "FNN", "m3u8") ELSE <<>>
    /\ fidx' = 1
    /\ dpc' = IF Files' = <<>> THEN "done" ELSE "read"
    /\ UNCHANGED m3u8
    /\ UNCHANGED parseVars
    /\ UNCHANGED procVars
    /\ UNCHANGED selVars
    /\ UNCHANGED masterVars
    /\ UNCHANGED dlVars

\* Line 8: the file is read and ProcessPlaylist is called with its text.
DriverProcess ==
    /\ dpc = "read"
    /\ playlist' = TextOf(Files[fidx])
    /\ Invoke(TextOf(Files[fidx]))
    /\ dpc' = "process"
    /\ UNCHANGED <<m3u8, Files, fidx>>
    /\ UNCHANGED selVars
    /\ UNCHANGED masterVars
    /\ UNCHANGED dlVars

\* Line 9: unlinkSync(file), then the next iteration of the for loop.
DriverUnlink ==
    /\ dpc = "process"
    /\ AwaitResumes
    /\ m3u8' = {f \in m3u8 : f.name # Files[fidx]}
    /\ fidx' = fidx + 1
    /\ dpc' = IF fidx + 1 > Len(Files) THEN "done" ELSE "read"
    /\ UNCHANGED Files
    /\ UNCHANGED parseVars
    /\ UNCHANGED procVars
    /\ UNCHANGED selVars
    /\ UNCHANGED masterVars
    /\ UNCHANGED dlVars

\* Line 8: the promise of ProcessPlaylist is rejected and nothing catches
\* it: the script ends.
DriverRejected ==
    /\ dpc = "process"
    /\ status = "threw"
    /\ dpc' = "failed"
    /\ UNCHANGED <<m3u8, Files, fidx>>
    /\ UNCHANGED parseVars
    /\ UNCHANGED procVars
    /\ UNCHANGED selVars
    /\ UNCHANGED masterVars
    /\ UNCHANGED dlVars

InitDriver ==
    /\ m3u8 \in Directories
    /\ Files = <<>>
    /\ fidx = 0
    /\ dpc = "start"
    /\ playlist = <<>>
    /\ parsed = NoParse
    /\ ppc = "start"
    /\ ProcIdle
    /\ SelIdle
    /\ MasterIdle
    /\ DlIdle

NextDriver ==
    \/ DriverGetFiles
    \/ DriverProcess
    \/ Mkdir
    \/ GetSegment
    \/ GetKey
    \/ ExistsCheck
    \/ DecryptFileToFile
    \/ DriverUnlink
    \/ DriverRejected

SpecDriver == InitDriver /\ [][NextDriver]_vars

-----------------------------------------------------------------------------
(* The downloader: entry script, startDownloader, downloadPlaylist *)

\* The channel id "64be64070e086a0009d7b028" of the entry script.
ChannelId == Str("id", "", NoDate)

\* const interval = 5; // seconds
interval == 5

\* response.data.refreshInSec of the boot response: a session that expires
\* before the next tick, and one that outlives the observation.
RefreshInSecs == {3, 30}

\* getMasterPlaylist, lines 26-27: refreshTime = now + refreshInSec - 1
Deadline(refreshInSec) == now + refreshInSec - 1

\* getDownloadURL, line 18: the URL built around the id it was given, with
\* the token of the session it has just started.
DownloadURL(id, session) == Str("url", id.kind, session)

\* The bodies a manifest GET answers with: a segment under a key, a key
\* only, an entry whose URL is excluded, and a KEY line whose URI parseKey
\* cannot take apart.
ManifestBodies ==
    {Flatten(<<<<KeyLine("u1")>>, <<ExtInfLine, UrlLine("a")>>>>),
     Flatten(<<<<KeyLine("u1")>>>>),
     Flatten(<<<<KeyLine("u1")>>, <<ExtInfLine, UrlLine("x")>>>>),
     Flatten(<<<<KeyLine("us")>>>>)}

\* if (refreshTime < new Date() || !playlistUrl)
NeedsRefresh ==
    \/ refreshTime # NoDate /\ refreshTime < now
    \/ playlistUrl = NoUrl

\* downloadPlaylist(channelID, outputFile) runs up to its first await: the
\* call of getDownloadURL (up to the boot GET), or the manifest GET from
\* the cached playlistUrl.
CallDownloadPlaylist ==
    LET call == [pc      |-> IF NeedsRefresh THEN "boot" ELSE "fetch",
                 started |-> now,
                 url0    |-> playlistUrl,
                 rt0     |-> refreshTime,
                 called  |-> NeedsRefresh,
                 session |-> NoDate,
                 url     |-> IF NeedsRefresh THEN NoUrl ELSE playlistUrl,
                 text    |-> <<>>,
                 result  |-> ""]
    IN  /\ inv' = Append(inv, call)
        /\ gdu' = IF NeedsRefresh
                  THEN Append(gdu, [id |-> channelID, by |-> Len(inv) + 1])
                  ELSE gdu

\* A rejected promise nobody handles: depending on the runtime the process
\* ends or goes on.
UnhandledRejection == alive' \in BOOLEAN

ProcessExitIgnored == alive' = alive

\* process.exit(1)
ProcessExit == alive' = FALSE

\* Entry script, line 273: the boot GET of getDownloadURL(id) is answered.
EntryBoot ==
    /\ alive
    /\ epc.pc = "boot"
    /\ \E ok \in BOOLEAN, r \in RefreshInSecs :
         IF ok
         THEN /\ refreshTime' = Deadline(r)
              /\ epc' = [pc |-> "master", session |-> Deadline(r)]
              /\ UNCHANGED alive
         ELSE /\ epc' = [epc EXCEPT !.pc = "failed"]
              /\ alive' = FALSE
              /\ UNCHANGED refreshTime
    /\ UNCHANGED <<now, playlistUrl, channelID, timer, inv, saved, gdu>>
    /\ UNCHANGED parseVars
    /\ UNCHANGED procVars
    /\ UNCHANGED selVars
    /\ UNCHANGED masterVars
    /\ UNCHANGED drvVars

\* Entry script, line 273: the master manifest GET of getDownloadURL(id) is
\* answered and the URL is returned to the script's constant playlistUrl.
EntryMaster ==
    /\ alive
    /\ epc.pc = "master"
    /\ \E ok \in BOOLEAN :
         IF ok
         THEN /\ channelID' = DownloadURL(ChannelId, epc.session)
              /\ epc' = [epc EXCEPT !.pc = "mkdir"]
              /\ UNCHANGED alive
         ELSE /\ epc' = [epc EXCEPT !.pc = "failed"]
              /\ alive' = FALSE
              /\ UNCHANGED channelID
    /\ UNCHANGED <<now, refreshTime, playlistUrl, timer, inv, saved, gdu>>
    /\ UNCHANGED parseVars
    /\ UNCHANGED procVars
    /\ UNCHANGED selVars
    /\ UNCHANGED masterVars
    /\ UNCHANGED drvVars

\* Entry script, lines 278-279, and startDownloader: the first
\* downloadPlaylist call is made (not awaited) and the timer is set.
StartDownloader ==
    /\ alive
    /\ epc.pc = "mkdir"
    /\ epc' = [epc EXCEPT !.pc = "started"]
    /\ CallDownloadPlaylist
    /\ timer' = now + interval
    /\ UNCHANGED <<now, refreshTime, playlistUrl, alive, channelID, saved>>
    /\ UNCHANGED parseVars
    /\ UNCHANGED procVars
    /\ UNCHANGED selVars
    /\ UNCHANGED masterVars
    /\ UNCHANGED drvVars

\* The setInterval callback: every interval seconds downloadPlaylist is
\* called, whatever the earlier calls are doing.
TimerFires ==
    /\ alive
    /\ epc.pc = "started"
    /\ timer = now
    /\ Len(inv) < MaxInvocations
    /\ CallDownloadPlaylist
    /\ timer' = now + interval
    /\ UNCHANGED <<now, refreshTime, playlistUrl, alive, epc, channelID, saved>>
    /\ UNCHANGED parseVars
    /\ UNCHANGED procVars
    /\ UNCHANGED selVars
    /\ UNCHANGED masterVars
    /\ UNCHANGED drvVars

\* Time passes until the timer is due: the clock is observed at the instants
\* the timer fires, and a response comes in within the second of one of
\* them.
Tick ==
    /\ alive
    /\ epc.pc = "started"
    /\ timer > now
    /\ timer <= MaxTime
    /\ now' = timer
    /\ UNCHANGED <<refreshTime, playlistUrl, alive, epc, channelID, timer, inv,
                   saved, gdu>>
    /\ UNCHANGED parseVars
    /\ UNCHANGED procVars
    /\ UNCHANGED selVars
    /\ UNCHANGED masterVars
    /\ UNCHANGED drvVars

\* getMasterPlaylist in invocation i: the boot GET is answered; refreshTime
\* is set at once (lines 26-27).  A failed GET rejects the invocation, the
\* call of getDownloadURL being outside the try block.
BootResponse(i) ==
    /\ alive
    /\ inv[i].pc = "boot"
    /\ \E ok \in BOOLEAN, r \in RefreshInSecs :
         IF ok
         THEN /\ refreshTime' = Deadline(r)
              /\ inv' = [inv EXCEPT ![i].pc = "master",
                                     ![i].session = Deadline(r)]
              /\ UNCHANGED alive
         ELSE /\ inv' = [inv EXCEPT ![i].pc = "rejected",
                                     ![i].result = "rejected"]
              /\ UnhandledRejection
              /\ UNCHANGED refreshTime
    /\ UNCHANGED <<now, playlistUrl, epc, channelID, timer, saved, gdu>>
    /\ UNCHANGED parseVars
    /\ UNCHANGED procVars
    /\ UNCHANGED selVars
    /\ UNCHANGED masterVars
    /\ UNCHANGED drvVars

\* getDownloadURL in invocation i: the master manifest GET is answered, the
\* URL is assigned to playlistUrl (line 175) and the manifest GET is issued
\* from it (line 178).
MasterResponse(i) ==
    /\ alive
    /\ inv[i].pc = "master"
    /\ \E ok \in BOOLEAN :
         IF ok
         THEN /\ playlistUrl' = DownloadURL(channelID, inv[i].session)
              /\ inv' = [inv EXCEPT ![i].pc = "fetch",
                                     ![i].url = playlistUrl']
              /\ UNCHANGED alive
         ELSE /\ inv' = [inv EXCEPT ![i].pc = "rejected",
                                     ![i].result = "rejected"]
              /\ UnhandledRejection
              /\ UNCHANGED playlistUrl
    /\ UNCHANGED <<now, refreshTime, epc, channelID, timer, saved, gdu>>
    /\ UNCHANGED parseVars
    /\ UNCHANGED procVars
    /\ UNCHANGED selVars
    /\ UNCHANGED masterVars
    /\ UNCHANGED drvVars

\* Lines 178-187 in invocation i: the manifest GET is answered and the body
\* is parsed.  A failed GET or a throwing parsePlaylist is caught and
\* logged; a manifest without segments ends the process; otherwise the
\* write is issued.
ManifestResponse(i) ==
    /\ alive
    /\ inv[i].pc = "fetch"
    /\ \E ok \in BOOLEAN, body \in ManifestBodies :
         IF ~ok \/ parsePlaylist(body).threw
         THEN /\ inv' = [inv EXCEPT ![i].pc = "done", ![i].result = "error"]
              /\ UNCHANGED alive
         ELSE IF Len(parsePlaylist(body).segments) = 0
         THEN /\ inv' = [inv EXCEPT ![i].pc = "done", ![i].result = "zero",
                                     ![i].text = body]
              /\ ProcessExit
         ELSE /\ inv' = [inv EXCEPT ![i].pc = "write", ![i].text = body]
              /\ UNCHANGED alive
    /\ UNCHANGED <<now, refreshTime, playlistUrl, epc, channelID, timer, saved,
                   gdu>>
    /\ UNCHANGED parseVars
    /\ UNCHANGED procVars
    /\ UNCHANGED selVars
    /\ UNCHANGED masterVars
    /\ UNCHANGED drvVars

\* Line 187 in invocation i: writeFile(outputFile, playlistContent) ends;
\* the file is named after the second the invocation started in.
WriteManifest(i) ==
    /\ alive
    /\ inv[i].pc = "write"
    /\ \E ok \in BOOLEAN :
         IF ok
         THEN /\ saved' = saved \cup
                    {[name |-> FileName("FNN_", inv[i].started, "m3u8"),
                      text |-> inv[i].text]}
              /\ inv' = [inv EXCEPT ![i].pc = "done", ![i].result = "saved"]
         ELSE /\ inv' = [inv EXCEPT ![i].pc = "done", ![i].result = "error"]
              /\ UNCHANGED saved
    /\ UNCHANGED <<now, refreshTime, playlistUrl, alive, epc, channelID, timer,
                   gdu>>
    /\ UNCHANGED parseVars
    /\ UNCHANGED procVars
    /\ UNCHANGED selVars
    /\ UNCHANGED masterVars
    /\ UNCHANGED drvVars

\* The entry script has called getDownloadURL("64be64070e086a0009d7b028").
InitDownloader ==
    /\ now = 0
    /\ refreshTime = NoDate
    /\ playlistUrl = NoUrl
    /\ alive = TRUE
    /\ epc = [pc |-> "boot", session |-> NoDate]
    /\ channelID = NoUrl
    /\ timer = NoDate
    /\ inv = <<>>
    /\ saved = {}
    /\ gdu = <<[id |-> ChannelId, by |-> 0]>>
    /\ playlist = <<>>
    /\ parsed = NoParse
    /\ ppc = "start"
    /\ ProcIdle
    /\ SelIdle
    /\ MasterIdle
    /\ DrvIdle

NextDownloader ==
    \/ EntryBoot
    \/ EntryMaster
    \/ StartDownloader
    \/ TimerFires
    \/ Tick
    \/ \E i \in 1..Len(inv) : BootResponse(i)
    \/ \E i \in 1..Len(inv) : MasterResponse(i)
    \/ \E i \in 1..Len(inv) : ManifestResponse(i)
    \/ \E i \in 1..Len(inv) : WriteManifest(i)

SpecDownloader == InitDownloader /\ [][NextDownloader]_vars

-----------------------------------------------------------------------------
(* Stream selection applied to every variant list within the bounds *)

InitSelect ==
    /\ streams \in StreamLists
    /\ selected = Undefined
    /\ spc = "start"
    /\ playlist = <<>>
    /\ parsed = NoParse
    /\ ppc = "start"
    /\ ProcIdle
    /\ ExtIdle

\* getDownloadURL, line 17: the selection among the parsed variants
CallGetHighestBandwidthStream ==
    /\ spc = "start"
    /\ selected' = getHighestBandwidthStream(streams)
    /\ spc' = "done"
    /\ UNCHANGED streams
    /\ UNCHANGED parseVars
    /\ UNCHANGED procVars
    /\ UNCHANGED extVars

NextSelect == CallGetHighestBandwidthStream

SpecSelect == InitSelect /\ [][NextSelect]_vars

-----------------------------------------------------------------------------
(* parseMaster applied to every master manifest within the bounds *)

InitMaster ==
    /\ \E bs \in MasterBlockSeqs(MaxMasterBlocks) : master = Flatten(bs)
    /\ mparsed = NoMaster
    /\ mpc = "start"
    /\ playlist = <<>>
    /\ parsed = NoParse
    /\ ppc = "start"
    /\ ProcIdle
    /\ SelIdle
    /\ DrvIdle
    /\ DlIdle

\* getDownloadURL, line 17: parseMaster(MasterManifest.data)
CallParseMaster ==
    /\ mpc = "start"
    /\ mparsed' = parseMaster(master)
    /\ mpc' = "done"
    /\ UNCHANGED master
    /\ UNCHANGED parseVars
    /\ UNCHANGED procVars
    /\ UNCHANGED selVars
    /\ UNCHANGED drvVars
    /\ UNCHANGED dlVars

NextMaster == CallParseMaster

SpecMaster == InitMaster /\ [][NextMaster]_vars

-----------------------------------------------------------------------------
(* The parser applied to every manifest within the bounds *)

InitParse ==
    /\ \E bs \in BlockSeqs(MaxBlocks) : playlist = Flatten(bs)
    /\ parsed = NoParse
    /\ ppc = "start"
    /\ ProcIdle
    /\ SelIdle
    /\ ExtIdle

CallParsePlaylist ==
    /\ ppc = "start"
    /\ parsed' = parsePlaylist(playlist)
    /\ ppc' = "done"
    /\ UNCHANGED playlist
    /\ UNCHANGED procVars
    /\ UNCHANGED selVars
    /\ UNCHANGED extVars

NextParse == CallParsePlaylist

SpecParse == InitParse /\ [][NextParse]_vars

-----------------------------------------------------------------------------
(* Properties of parsePlaylist *)

Max(S) == CHOOSE m \in S : \A n \in S : n <= m

ParseReturned == ppc = "done" /\ ~parsed.threw

KeyLinePositions == {j \in 1..Len(playlist) : playlist[j].tag = "#EXT-X-KEY"}

ExtInfPositions == {i \in 1..Len(playlist) : playlist[i].tag = "#EXTINF:"}

DiscPositions ==
    {d \in 1..Len(playlist) : playlist[d].tag = "#EXT-X-DISCONTINUITY"}

\* The position of the last #EXT-X-KEY line before line i, 0 if there is none.
LastKeyLineBefore(i) ==
    LET before == {j \in KeyLinePositions : j < i}
    IN  IF before = {} THEN 0 ELSE Max(before)

\* The position of the n-th #EXTINF line of the manifest.
NthExtInf(n) ==
    CHOOSE i \in ExtInfPositions :
        Cardinality({j \in ExtInfPositions : j <= i}) = n

\* C1: every returned segment whose most recently preceding #EXT-X-KEY line is
\* a non-excluded one references the KeyRecord parsed from that very line:
\* segments between K1 and K2 reference K1's record, segments after K2
\* reference K2's record.
C1_SegmentKeyIsLatestKey ==
    ParseReturned =>
        \A n \in 1..Len(parsed.segments) :
            LET s == parsed.segments[n]
                j == LastKeyLineBefore(s.at)
            IN  (j # 0 /\ ~HasSentinel(playlist[j].val)) =>
                    /\ s.key \in 1..Len(parsed.keys)
                    /\ parsed.keys[s.key].at = j
                    /\ parsed.keys[s.key].uri = playlist[j].val

\* A manifest K1, S1, K2, S2 has been parsed: S1 holds the first KeyRecord
\* and S2 the second, declared after S1.
C1_Witness ==
    /\ ParseReturned
    /\ \E n, m \in 1..Len(parsed.segments) :
          /\ n < m
          /\ parsed.segments[n].key = 1
          /\ parsed.segments[m].key = 2
          /\ parsed.keys[1].uri # parsed.keys[2].uri
          /\ parsed.keys[1].at < parsed.segments[n].at
          /\ parsed.segments[n].at < parsed.keys[2].at
          /\ parsed.keys[2].at < parsed.segments[m].at

\* Every #EXTINF line has a following line and none of these is an excluded
\* sentinel URL.
AllEntriesPlain ==
    \A i \in ExtInfPositions :
        /\ i + 1 <= Len(playlist)
        /\ ~HasSentinel(playlist[i + 1].val)

\* No #EXT-X-KEY line carries a URI too short for the naming convention (a
\* malformed KEY line, on which the parse fails as a whole).
KeyLinesFollowConvention ==
    \A j \in KeyLinePositions : playlist[j].val # "us"

C3_StopsAtDiscontinuity ==
    ParseReturned =>
        \A n \in 1..Len(parsed.segments) :
            \A d \in DiscPositions : parsed.segments[n].at < d

\* C4: no returned key has a uri holding a sentinel identifier and no returned
\* segment has a url holding one.
C4_NoSentinelReturned ==
    ppc = "done" =>
        /\ \A k \in 1..Len(parsed.keys) : ~HasSentinel(parsed.keys[k].uri)
        /\ \A n \in 1..Len(parsed.segments) :
              ~HasSentinel(parsed.segments[n].url.val)

\* A manifest with a sentinel KEY line and a sentinel segment URL has been
\* parsed, and other keys and segments were returned.
C4_Witness ==
    /\ ParseReturned
    /\ \E j \in KeyLinePositions : HasSentinel(playlist[j].val)
    /\ \E i \in ExtInfPositions :
          i + 1 <= Len(playlist) /\ HasSentinel(playlist[i + 1].val)
    /\ Len(parsed.keys) >= 1
    /\ Len(parsed.segments) >= 1

\* C5: no returned segment comes from an #EXTINF line whose most recently
\* preceding #EXT-X-KEY line has a uri holding a sentinel identifier.
C5_NoSegmentUnderExcludedKey ==
    ParseReturned =>
        \A n \in 1..Len(parsed.segments) :
            LET j == LastKeyLineBefore(parsed.segments[n].at)
            IN  j # 0 => ~HasSentinel(playlist[j].val)

-----------------------------------------------------------------------------
(* Properties of ProcessPlaylist *)

\* The positions in the history of the calls of one kind.
IoOps(op) == {k \in 1..Len(io) : io[k].op = op}

\* The current invocation follows one that ran to completion.
PreviousRunCompleted ==
    Len(outcomes) >= 1 /\ outcomes[Len(outcomes)] = "returned"

\* C6: an invocation of ProcessPlaylist that follows a completed invocation
\* on the same manifest and show name writes no file, raises no error and
\* leaves the output files as they were.
C6_SecondRunIsNoOp ==
    PreviousRunCompleted =>
        /\ status # "threw"
        /\ IoOps("write") = {}
        /\ files = files0

\* C7: for a segment whose target file already exists no segment fetch, key
\* fetch, decryption or write is performed.
C7_ExistingFileSkipsAllWork ==
    \A k \in 1..Len(io) :
        io[k].op \in {"getSegment", "getKey", "decrypt", "write"} =>
            ~io[k].existed

\* C8: within one invocation at most one key fetch is issued per key URI.
C8_OneKeyFetchPerUri ==
    \A u \in KeyUris :
        Cardinality({k \in IoOps("getKey") : io[k].target = u}) <= 1

\* The segments the current invocation has made a call for.
Handled == {io[k].seg : k \in 1..Len(io)}

\* C9: a failure while handling one segment does not abort the run: when the
\* invocation has ended, every segment of the manifest has been handled.
C9_FailureDoesNotAbort ==
    (status \in {"returned", "threw"} /\ ~parsed.threw) =>
        \A n \in 1..Len(parsed.segments) : n \in Handled

\* C9, amended: a failure while handling one segment aborts the invocation:
\* the failed call is the last call of the invocation, which ends with the
\* error at that segment, so that no later segment is handled.
C9_FailureAborts ==
    \A k \in 1..Len(io) :
        ~io[k].ok =>
            /\ k = Len(io)
            /\ status = "threw"
            /\ cur = io[k].seg
            /\ \A n \in Handled : n <= io[k].seg

\* The second of three segments failed to decrypt after the first was
\* written: the invocation has ended and the third was never handled.
C9_Witness ==
    /\ status = "threw"
    /\ Len(parsed.segments) = 3
    /\ cur = 2
    /\ io[Len(io)].op = "decrypt"
    /\ ~io[Len(io)].ok
    /\ \E k \in IoOps("write") : io[k].seg = 1 /\ io[k].ok

\* The calls the current invocation made for segment n, as positions in
\* the history.
CallsFor(n) == {k \in 1..Len(io) : io[k].seg = n}

\* C15: a file is at a segment's target path only if the segment's
\* ciphertext was fetched and decrypted without error: every file the
\* invocation put on disk follows a successful fetch and a successful
\* decryption of a segment with that path, and a failed segment fetch, key
\* fetch or decryption leaves no file at the path of its segment (unless one
\* was there before).
C15_FileOnlyAfterFetchAndDecrypt ==
    /\ \A f \in files \ files0 :
          \E w \in IoOps("write") :
              /\ io[w].target = f.path
              /\ \E g \in IoOps("getSegment") :
                    g < w /\ io[g].seg = io[w].seg /\ io[g].ok
              /\ \E d \in IoOps("decrypt") :
                    d < w /\ io[d].seg = io[w].seg /\ io[d].ok
    /\ \A k \in 1..Len(io) :
          (io[k].op \in {"getSegment", "getKey", "decrypt"}
             /\ ~io[k].ok /\ ~io[k].existed) =>
              ~Exists(TargetPath(parsed.segments[io[k].seg]))

\* The second segment could not be decrypted after the first was written:
\* there is a file at the first segment's path and none at the second's.
C15_Witness ==
    /\ status = "threw"
    /\ cur = 2
    /\ io[Len(io)].op = "decrypt"
    /\ ~io[Len(io)].ok
    /\ Exists(TargetPath(parsed.segments[1]))
    /\ ~Exists(TargetPath(parsed.segments[2]))

\* C16: a segment without key makes the invocation fail when its Directory
\* is computed: that failure is the only call made for the segment (no
\* mkdir, no fetch, no write), the invocation ends with the error at that
\* segment and no later segment is handled.
C16_KeylessSegmentFailsFirst ==
    \A n \in 1..Len(parsed.segments) :
        (parsed.segments[n].key = 0 /\ n \in Handled) =>
            /\ CallsFor(n) = {Len(io)}
            /\ io[Len(io)].op = "Directory"
            /\ ~io[Len(io)].ok
            /\ status = "threw"
            /\ cur = n
            /\ \A m \in Handled : m <= n
            /\ files = files0

\* A manifest whose first entry precedes the first KEY line and whose second
\* entry follows it has been handed over: the invocation failed at the first
\* segment, with an untouched output tree.
C16_Witness ==
    /\ status = "threw"
    /\ Len(parsed.segments) >= 2
    /\ parsed.segments[1].key = 0
    /\ parsed.segments[2].key # 0
    /\ Handled = {1}
    /\ run = 1
    /\ dirs = {}
    /\ files = {}

-----------------------------------------------------------------------------
(* Properties of the driver script *)

\* How the invocation for the i-th file of Files ended, "none" when it has
\* not been started.
ResultOf(i) ==
    IF i < run THEN outcomes[i] ELSE IF i = run THEN status ELSE "none"

InDir(file) == \E f \in m3u8 : f.name = file

\* C17: the driver unlinks a manifest file only after ProcessPlaylist has
\* returned for it: a file that has gone from ./m3u8 was processed without
\* error, and when the processing of a file fails the file stays, no later
\* file is processed and every later file stays.
C17_UnlinkOnlyAfterSuccess ==
    \A i \in 1..Len(Files) :
        /\ ~InDir(Files[i]) => ResultOf(i) = "returned"
        /\ ResultOf(i) = "threw" =>
              /\ InDir(Files[i])
              /\ run = i
              /\ \A j \in (i + 1)..Len(Files) : InDir(Files[j])

\* Three manifests were found: the first was processed and unlinked, the
\* second failed, and the script ended with the second and third in place.
C17_Witness ==
    /\ dpc = "failed"
    /\ Len(Files) = 3
    /\ run = 2
    /\ status = "threw"
    /\ ~InDir(Files[1])
    /\ InDir(Files[2])
    /\ InDir(Files[3])

-----------------------------------------------------------------------------
(* Properties of getHighestBandwidthStream *)

\* C10: for a non-empty list the returned variant has the maximum bandwidth
\* of the list and is the first variant of the list with that bandwidth.
C10_FirstOfHighestBandwidth ==
    (spc = "done" /\ Len(streams) >= 1) =>
        \E k \in 1..Len(streams) :
            /\ selected = streams[k]
            /\ \A j \in 1..Len(streams) :
                  streams[j].bandwidth <= streams[k].bandwidth
            /\ \A j \in 1..(k - 1) :
                  streams[j].bandwidth < streams[k].bandwidth

\* The list with bandwidths 500000, 1200000, 1200000, 300000 has been
\* handled: the second variant (index 1 counting from 0) was returned.
C10_Witness ==
    /\ spc = "done"
    /\ Len(streams) = 4
    /\ streams[1].bandwidth = 500000
    /\ streams[2].bandwidth = 1200000
    /\ streams[3].bandwidth = 1200000
    /\ streams[4].bandwidth = 300000
    /\ selected = streams[2]

-----------------------------------------------------------------------------
(* Properties of parseMaster *)

\* The invocations of downloadPlaylist that have started and not finished.
InFlight == {i \in 1..Len(inv) : inv[i].pc \notin {"done", "rejected"}}

\* C13: startDownloader never overlaps invocations: while the process runs,
\* at most one downloadPlaylist invocation is in flight.
C13_NoOverlappingInvocations ==
    alive => Cardinality(InFlight) <= 1

\* C14: an invocation that fetched a manifest without segments has written
\* no manifest file, and the downloader keeps running.
C14_ZeroSegmentsKeepsRunning ==
    \A i \in 1..Len(inv) :
        inv[i].result = "zero" =>
            /\ \A f \in saved : f.name.stamp # inv[i].started
            /\ alive

\* C14 (as the code has it): an invocation that fetched a manifest without
\* segments has written no manifest file and has ended the downloader
\* process, so that no later tick fetches or saves anything.
C14_ZeroSegmentsEndsProcess ==
    \A i \in 1..Len(inv) :
        inv[i].result = "zero" =>
            /\ \A f \in saved : f.name.stamp # inv[i].started
            /\ ~alive
            /\ inv[i].pc = "done"

\* A manifest was saved, and a later invocation fetched a manifest whose
\* only entry is excluded.
C14_Witness ==
    \E i \in 2..Len(inv) :
        /\ inv[i].result = "zero"
        /\ inv[i].text # <<>>
        /\ Len(inv[i].text) = 3
        /\ \E j \in 1..(i - 1) : inv[j].result = "saved"
        /\ saved # {}

\* C18: downloadPlaylist calls getDownloadURL if and only if, at its start,
\* no playlistUrl is cached or refreshTime lies in the past; otherwise it
\* fetches the manifest from the cached playlistUrl; and every manifest GET
\* uses a URL of a session whose deadline had not passed when the invocation
\* started.
C18_RefreshExactlyWhenNeeded ==
    \A i \in 1..Len(inv) :
        /\ inv[i].called <=>
              (inv[i].url0 = NoUrl
                 \/ (inv[i].rt0 # NoDate /\ inv[i].rt0 < inv[i].started))
        /\ ~inv[i].called => inv[i].url = inv[i].url0
        /\ inv[i].url # NoUrl => inv[i].url.session >= inv[i].started

\* C19: every getDownloadURL call made by downloadPlaylist receives the
\* channel id the entry script was started for.
C19_RefreshUsesChannelId ==
    \A k \in 1..Len(gdu) : gdu[k].by # 0 => gdu[k].id = ChannelId

\* C11: every returned stream variant's uri is the line that immediately
\* follows the variant's own #EXT-X-STREAM-INF line (as trimmed by the
\* parser), also when two #EXT-X-STREAM-INF lines have identical text.
C11_UriFollowsOwnStreamInf ==
    (mpc = "done" /\ ~mparsed.threw) =>
        \A k \in 1..Len(mparsed.streams) :
            LET s == mparsed.streams[k]
            IN  /\ s.at + 1 <= Len(master)
                /\ s.uri = trim(master[s.at + 1])

-----------------------------------------------------------------------------
(* Malformed KEY lines *)

\* C12: when the manifest holds a #EXT-X-KEY line without URI attribute the
\* parse fails as a whole: no segments and no keys are returned, and no
\* KeyRecord with an empty uri exists.
C12_KeyWithoutUriIsFatal ==
    (ppc = "done" /\ \E j \in KeyLinePositions : playlist[j].val = "") =>
        /\ parsed.threw
        /\ parsed.segments = <<>>
        /\ parsed.keys = <<>>

=============================================================================
